---- MODULE Spec2Model ----
(***************************************************************************)
(* gcs-index: an auto-index HTTP front for object-storage buckets.         *)
(*                                                                         *)
(* Strings are sequences of one-character strings, compared byte-wise      *)
(* through Code, as Go compares them.  A request is handled by one action  *)
(* (handle -> handleIndex | handleObject); pc tells whether the server is  *)
(* waiting for a request ("accept") or has just answered one              *)
(* ("responded"); the per-request variables hold the handler's locals and  *)
(* what it wrote to the response.                                          *)
(***************************************************************************)
EXTENDS Integers, Sequences, FiniteSets, TLC

VARIABLES
    mountPoints,   \* var mountPoints []MountPoint, sorted by prepareMountPoints
    versionSort,   \* flag -version-sort
    skipReadme,    \* flag -skip-readme
    readme,        \* flag -readme
    rmCache,       \* var rmCache map[string]readmeCacheEntry
    rmKeys,        \* var rmKeys []string
    rmCacheSize,   \* var rmCacheSize int
    pc,            \* "accept" | "responded"
    op,            \* the operation that produced the current response
    req,           \* the request being answered
    backend,       \* what the storage backend answers to this request
    mountPoint,    \* index into mountPoints returned by findMountPoint, 0 for nil
    links,         \* linksFromMountPoints(path)
    storageLinks,  \* first result of linksFromStorage(ctx, path)
    readmeObject,  \* second result of linksFromStorage(ctx, path)
    sorted,        \* items after slices.SortStableFunc
    items,         \* items after slices.CompactFunc: the listing
    resp,          \* status, headers and body of the response
    calls,         \* backend calls made while handling the request, in order
    fetched,       \* what the last fetchReadme(ctx, attrs) returned
    goroutines     \* the fetchReadme calls in progress, one per request goroutine

vars == <<mountPoints, versionSort, skipReadme, readme, rmCache, rmKeys, rmCacheSize, pc, op, req, backend,
          mountPoint, links, storageLinks, readmeObject, sorted, items, resp, calls, fetched,
          goroutines>>

config == <<mountPoints, versionSort, skipReadme, readme>>

cache == <<rmCache, rmKeys, rmCacheSize>>

(***************************************************************************)
(* Bounds of the model.                                                    *)
(***************************************************************************)
MaxMounts == 2     \* mount arguments on the command line (SpecMount)
MaxArgLen == 3     \* length of a mount argument's path (SpecMount)
MaxPathLen == 3    \* length of a request path
MaxListing == 2    \* results a backend listing yields
MaxTick == 3       \* latest instant, in ticks
TicksPerSecond == 2 \* clock resolution below one second
MaxStamp == 2      \* last-modified instants of a readme object (SpecCache)
MaxGoroutines == 2 \* requests handled at the same time (SpecConc)
MaxCounter == 40   \* |rmCacheSize| explored, in sixteenths of rmCacheMaxSize

(***************************************************************************)
(* Strings.                                                                *)
(***************************************************************************)
Code ==
    "\"" :> 34 @@ "." :> 46 @@ "/" :> 47 @@ "1" :> 49 @@ "2" :> 50 @@ "H" :> 72 @@
    "R" :> 82 @@ "W" :> 87 @@ "X" :> 88 @@ "a" :> 97 @@ "c" :> 99 @@ "d" :> 100 @@
    "e" :> 101 @@ "f" :> 102 @@ "i" :> 105 @@ "m" :> 109 @@ "n" :> 110 @@ "o" :> 111 @@
    "r" :> 114 @@ "v" :> 118

Digits == {"1", "2"}

Letters == {"H", "R", "W", "X", "a", "c", "d", "e", "f", "i", "m", "n", "o", "r", "v"}

SeqsUpTo(S, n) == UNION {[1..k -> S] : k \in 0..n}

HasPrefix(s, prefix) ==
    Len(prefix) <= Len(s) /\ SubSeq(s, 1, Len(prefix)) = prefix

HasSuffix(s, suffix) ==
    Len(suffix) <= Len(s) /\ SubSeq(s, Len(s) - Len(suffix) + 1, Len(s)) = suffix

TrimPrefix(s, prefix) ==
    IF HasPrefix(s, prefix) THEN SubSeq(s, Len(prefix) + 1, Len(s)) ELSE s

RECURSIVE Compare(_, _)
Compare(a, b) ==
    IF a = <<>> /\ b = <<>> THEN 0
    ELSE IF a = <<>> THEN -1
    ELSE IF b = <<>> THEN 1
    ELSE IF Code[Head(a)] < Code[Head(b)] THEN -1
    ELSE IF Code[Head(a)] > Code[Head(b)] THEN 1
    ELSE Compare(Tail(a), Tail(b))

\* strings.SplitAfterN(s, sep, 2)[0] for a one-character sep: s up to and
\* including its first sep, or all of s when it holds none.
SplitAfterFirst(s, sep) ==
    LET at == {i \in 1..Len(s) : s[i] = sep}
    IN  IF at = {} THEN s
        ELSE SubSeq(s, 1, CHOOSE i \in at : \A j \in at : i <= j)

\* strings.Trim(s, cutset): s without its leading and trailing characters
\* that are in cutset.
Trim(s, cutset) ==
    LET keep == {i \in 1..Len(s) : s[i] \notin cutset}
    IN  IF keep = {} THEN <<>>
        ELSE SubSeq(s, CHOOSE i \in keep : \A j \in keep : i <= j,
                       CHOOSE i \in keep : \A j \in keep : i >= j)

(***************************************************************************)
(* Mount points.                                                           *)
(***************************************************************************)
MountPoint(path, bucket, prefix) ==
    [Path |-> path, Bucket |-> bucket, Prefix |-> prefix]

\* "Normalize the path": a leading and a trailing slash are added.
normalizePath(p) ==
    LET q == IF HasPrefix(p, <<"/">>) THEN p ELSE <<"/">> \o p
    IN  IF HasSuffix(q, <<"/">>) THEN q ELSE q \o <<"/">>

lessMountPointShortestFirst(a, b) ==
    IF Len(a.Path) # Len(b.Path)
    THEN Len(a.Path) - Len(b.Path)
    ELSE Compare(a.Path, b.Path)

\* The comparison given to slices.SortFunc: longest path first.
lessMountPoint(a, b) ==
    IF Len(a.Path) # Len(b.Path)
    THEN Len(b.Path) - Len(a.Path)
    ELSE Compare(a.Path, b.Path)

\* slices.SortFunc is not stable: any arrangement of s the comparison accepts.
SortFunc(s) ==
    LET arranged == {[i \in 1..Len(s) |-> s[f[i]]] : f \in Permutations(1..Len(s))}
    IN  {t \in arranged :
            \A i \in 1..Len(t) : \A j \in 1..Len(t) :
                i < j => lessMountPoint(t[i], t[j]) <= 0}

\* args are the command line's path:bucket:prefix triples, already split.
prepareMountPoints(args) ==
    SortFunc([i \in 1..Len(args) |->
                MountPoint(normalizePath(args[i].Path), args[i].Bucket, args[i].Prefix)])

\* The first mount point, in mountPoints' order, whose Path is a prefix of path.
findMountPoint(path) ==
    LET hit == {i \in 1..Len(mountPoints) : HasPrefix(path, mountPoints[i].Path)}
    IN  IF hit = {} THEN 0 ELSE CHOOSE i \in hit : \A j \in hit : i <= j

\* An Item with only its Name set; a nil pointer is the empty sequence, a
\* pointer to x is <<x>>.
Item(name) ==
    [Name |-> name, Size |-> <<>>, Fingerprint |-> <<>>, ContentType |-> <<>>,
     Timestamp |-> <<>>, Metadata |-> <<>>]

RECURSIVE linksFromMountPointsFrom(_, _)
linksFromMountPointsFrom(i, path) ==
    IF i > Len(mountPoints) THEN <<>>
    ELSE LET m == mountPoints[i]
             rest == linksFromMountPointsFrom(i + 1, path)
         IN  IF m.Path # path /\ HasPrefix(m.Path, path)
             THEN <<Item(SplitAfterFirst(TrimPrefix(m.Path, path), "/"))>> \o rest
             ELSE rest

RECURSIVE linksFromMountPointsNoSkip(_, _)
linksFromMountPointsNoSkip(i, path) ==
    IF i > Len(mountPoints) THEN <<>>
    ELSE LET m == mountPoints[i]
             rest == linksFromMountPointsNoSkip(i + 1, path)
         IN  IF HasPrefix(m.Path, path)
             THEN <<Item(SplitAfterFirst(TrimPrefix(m.Path, path), "/"))>> \o rest
             ELSE rest

linksFromMountPointsSelf(path) == linksFromMountPointsNoSkip(1, path)

linksFromMountPoints(path) == linksFromMountPointsFrom(1, path)

(***************************************************************************)
(* guessVersion and version.Version.Compare, for names over Code's         *)
(* characters (which hold none of "-", "~", "+").                          *)
(***************************************************************************)
IsDigit(s, i) == i <= Len(s) /\ s[i] \in Digits

IsWord(s, i) == i <= Len(s) /\ s[i] \in Digits \cup Letters

\* The end of the longest run of positions from i on that satisfy Is.
RECURSIVE DigitsEnd(_, _)
DigitsEnd(s, i) == IF IsDigit(s, i + 1) THEN DigitsEnd(s, i + 1) ELSE i

RECURSIVE WordEnd(_, _)
WordEnd(s, i) == IF IsWord(s, i + 1) THEN WordEnd(s, i + 1) ELSE i

\* (\.[0-9]+)* from the position after e.
RECURSIVE DottedDigitsEnd(_, _)
DottedDigitsEnd(s, e) ==
    IF e + 1 <= Len(s) /\ s[e + 1] = "." /\ IsDigit(s, e + 2)
    THEN DottedDigitsEnd(s, DigitsEnd(s, e + 2))
    ELSE e

\* (\.[0-9A-Za-z]+)* from the position after e.
RECURSIVE DottedWordsEnd(_, _)
DottedWordsEnd(s, e) ==
    IF e + 1 <= Len(s) /\ s[e + 1] = "." /\ IsWord(s, e + 2)
    THEN DottedWordsEnd(s, WordEnd(s, e + 2))
    ELSE e

RECURSIVE ParseInt(_)
ParseInt(d) ==
    IF d = <<>> THEN 0
    ELSE 10 * ParseInt(SubSeq(d, 1, Len(d) - 1)) + (Code[d[Len(d)]] - 48)

\* strings.Split(s, ".")
RECURSIVE SplitDots(_)
SplitDots(s) ==
    LET at == {i \in 1..Len(s) : s[i] = "."}
    IN  IF at = {} THEN <<s>>
        ELSE LET d == CHOOSE i \in at : \A j \in at : i <= j
             IN  <<SubSeq(s, 1, d - 1)>> \o SplitDots(SubSeq(s, d + 1, Len(s)))

PadSegments(seg) ==
    seg \o [i \in 1..(IF Len(seg) < 3 THEN 3 - Len(seg) ELSE 0) |-> 0]

NoVersion == [ok |-> FALSE, at |-> 0, segments |-> <<>>, pre |-> <<>>]

\* versionRegexp.FindStringIndex(name): the leftmost match, each part as long
\* as it can be; then version.NewVersion of the match.  at is loc[0].
guessVersion(name) ==
    LET starts == {i \in 1..Len(name) :
                      IsDigit(name, i) \/ (name[i] = "v" /\ IsDigit(name, i + 1))}
    IN  IF starts = {} THEN NoVersion
        ELSE LET from == CHOOSE i \in starts : \A j \in starts : i <= j
                 num == IF name[from] = "v" THEN from + 1 ELSE from
                 coreEnd == DottedDigitsEnd(name, DigitsEnd(name, num))
                 preEnd == IF IsWord(name, coreEnd + 1)
                           THEN DottedWordsEnd(name, WordEnd(name, coreEnd + 1))
                           ELSE coreEnd
                 core == SplitDots(SubSeq(name, num, coreEnd))
             IN  [ok |-> TRUE,
                  at |-> from - 1,
                  segments |-> PadSegments([i \in 1..Len(core) |-> ParseInt(core[i])]),
                  pre |-> SubSeq(name, coreEnd + 1, preEnd)]

\* comparePart of two prerelease parts.
IsNumeric(part) == part # <<>> /\ \A i \in 1..Len(part) : part[i] \in Digits

comparePart(a, b) ==
    IF a = b THEN 0
    ELSE IF a = <<>> THEN (IF IsNumeric(b) THEN -1 ELSE 1)
    ELSE IF b = <<>> THEN (IF IsNumeric(a) THEN 1 ELSE -1)
    ELSE IF IsNumeric(a) /\ ~IsNumeric(b) THEN -1
    ELSE IF ~IsNumeric(a) /\ IsNumeric(b) THEN 1
    ELSE IF ~IsNumeric(a) /\ ~IsNumeric(b) /\ Compare(a, b) > 0 THEN 1
    ELSE IF IsNumeric(a) /\ IsNumeric(b) /\ ParseInt(a) > ParseInt(b) THEN 1
    ELSE -1

RECURSIVE comparePartsFrom(_, _, _)
comparePartsFrom(a, b, i) ==
    IF i > Len(a) /\ i > Len(b) THEN 0
    ELSE LET c == comparePart(IF i <= Len(a) THEN a[i] ELSE <<>>,
                              IF i <= Len(b) THEN b[i] ELSE <<>>)
         IN  IF c # 0 THEN c ELSE comparePartsFrom(a, b, i + 1)

comparePrereleases(a, b) ==
    IF a = b THEN 0 ELSE comparePartsFrom(SplitDots(a), SplitDots(b), 1)

RECURSIVE compareSegmentsFrom(_, _, _)
compareSegmentsFrom(a, b, i) ==
    IF i > Len(a) /\ i > Len(b) THEN 0
    ELSE IF i > Len(a)
    THEN (IF \E j \in i..Len(b) : b[j] # 0 THEN -1 ELSE 0)
    ELSE IF i > Len(b)
    THEN (IF \E j \in i..Len(a) : a[j] # 0 THEN 1 ELSE 0)
    ELSE IF a[i] < b[i] THEN -1
    ELSE IF a[i] > b[i] THEN 1
    ELSE compareSegmentsFrom(a, b, i + 1)

\* v.Compare(other)
versionCompare(v, other) ==
    IF v.segments = other.segments
    THEN IF v.pre = <<>> /\ other.pre = <<>> THEN 0
         ELSE IF v.pre = <<>> THEN 1
         ELSE IF other.pre = <<>> THEN -1
         ELSE comparePrereleases(v.pre, other.pre)
    ELSE compareSegmentsFrom(v.segments, other.segments, 1)

(***************************************************************************)
(* The listing: sortLinks, slices.SortStableFunc, slices.CompactFunc.      *)
(***************************************************************************)
sortLinksDirsFirst(a, b) ==
    IF (a.Size # <<>>) # (b.Size # <<>>)
    THEN (IF a.Size # <<>> THEN 1 ELSE -1)
    ELSE Compare(a.Name, b.Name)

sortLinks(a, b) ==
    IF (a.Size # <<>>) # (b.Size # <<>>)
    THEN (IF a.Size # <<>> THEN -1 ELSE 1)
    ELSE LET va == guessVersion(a.Name)
             vb == guessVersion(b.Name)
             byPrefix == Compare(SubSeq(a.Name, 1, va.at), SubSeq(b.Name, 1, vb.at))
             byVersion == versionCompare(vb, va)
         IN  IF versionSort /\ va.ok /\ vb.ok /\ byPrefix # 0 THEN byPrefix
             ELSE IF versionSort /\ va.ok /\ vb.ok /\ byVersion # 0 THEN byVersion
             ELSE Compare(a.Name, b.Name)

\* One pass of the insertion sort: x moves left past every element it is
\* less than.
RECURSIVE insertLast(_, _)
insertLast(s, x) ==
    IF s # <<>> /\ sortLinks(x, s[Len(s)]) < 0
    THEN insertLast(SubSeq(s, 1, Len(s) - 1), x) \o <<s[Len(s)]>>
    ELSE s \o <<x>>

\* slices.SortStableFunc(items, sortLinks): an insertion sort, for the fewer
\* than 20 items a listing holds here.
RECURSIVE SortStableFunc(_)
SortStableFunc(s) ==
    IF s = <<>> THEN <<>>
    ELSE insertLast(SortStableFunc(SubSeq(s, 1, Len(s) - 1)), s[Len(s)])

RECURSIVE dropSeenNames(_, _)
dropSeenNames(s, seen) ==
    IF s = <<>> THEN <<>>
    ELSE IF Head(s).Name \in seen THEN dropSeenNames(Tail(s), seen)
    ELSE <<Head(s)>> \o dropSeenNames(Tail(s), seen \cup {Head(s).Name})

CompactAnywhere(s) == dropSeenNames(s, {})

RECURSIVE compactRuns(_)
compactRuns(s) ==
    IF Len(s) < 2 THEN s
    ELSE LET rest == compactRuns(Tail(s))
         IN  IF s[2].Name = s[1].Name THEN <<s[1]>> \o Tail(rest) ELSE <<s[1]>> \o rest

\* slices.CompactFunc(items, a.Name == b.Name): of each run of equal names
\* the first item is kept.
CompactFunc(s) == compactRuns(s)

(***************************************************************************)
(* Requests, backend answers, responses.                                   *)
(***************************************************************************)
EmptyMap == [k \in {} |-> <<>>]

SetHeader(h, key, value) ==
    [k \in DOMAIN h \cup {key} |-> IF k = key THEN value ELSE h[k]]

setHeaderIfNotEmpty(h, key, value) ==
    IF value # "" THEN SetHeader(h, key, value) ELSE h

\* An If-Modified-Since value: absent, not a date, or a date (whole seconds).
NoHeader == [kind |-> "absent", sec |-> 0]

Request(method, path, inm, ims, json) ==
    [method |-> method, path |-> path, inm |-> inm, ims |-> ims, json |-> json]

NoRequest == Request("", <<>>, <<>>, NoHeader, FALSE)

\* storage.ObjectAttrs, as a listing and as Attrs() return it; ok is FALSE
\* for the error of Attrs().
NoAttrs ==
    [ok |-> FALSE, err |-> "", Bucket |-> "", Name |-> <<>>, Prefix |-> <<>>, Size |-> 0,
     MD5 |-> <<>>, Etag |-> <<>>, ContentType |-> "", ContentEncoding |-> "",
     ContentDisposition |-> "", CacheControl |-> "", Updated |-> 0,
     Metadata |-> EmptyMap]

NoMarkdown == [text |-> "", len |-> 0]

\* The results of fetchReadme: done is FALSE while it has not been called.
\* evicted lists the keys its purge loop deleted, in order.
Fetched(done, err, markdown, evicted) ==
    [done |-> done, err |-> err, markdown |-> markdown, evicted |-> evicted]

NoFetch == Fetched(FALSE, FALSE, NoMarkdown, <<>>)

\* A goroutine inside fetchReadme: where it is (at is "idle" outside) and its
\* locals.
Goroutine(at, attrs, markdown, wasInCache) ==
    [at |-> at, attrs |-> attrs, markdown |-> markdown, wasInCache |-> wasInCache]

NoGoroutines == [g \in 1..MaxGoroutines |-> Goroutine("idle", NoAttrs, NoMarkdown, FALSE)]

\* What the backend answers while one request is handled: Attrs(), the
\* results Objects() yields and whether it then fails, how NewReader and the
\* copy of the object end, how the read of the readme ends.
Backend(attrs, listing, listErr, reader, readmeRead, markdown) ==
    [attrs |-> attrs, listing |-> listing, listErr |-> listErr, reader |-> reader,
     readmeRead |-> readmeRead, markdown |-> markdown]

NoBackend == Backend(NoAttrs, <<>>, FALSE, "none", "none", NoMarkdown)

Response(status, headers, body) ==
    [status |-> status, headers |-> headers, body |-> body]

NoBody == [format |-> "none", parent |-> FALSE, rows |-> <<>>, footer |-> FALSE]

NoResponse == Response(0, EmptyMap, NoBody)

Call(fn, bucket, name) == [fn |-> fn, bucket |-> bucket, name |-> name]

Idle ==
    /\ pc = "accept"
    /\ op = "none"
    /\ req = NoRequest
    /\ backend = NoBackend
    /\ mountPoint = 0
    /\ links = <<>>
    /\ storageLinks = <<>>
    /\ readmeObject = <<>>
    /\ sorted = <<>>
    /\ items = <<>>
    /\ resp = NoResponse
    /\ calls = <<>>
    /\ fetched = NoFetch

\* The server goes back to waiting: the handler's locals are gone.
Accept ==
    /\ pc = "responded"
    /\ pc' = "accept"
    /\ op' = "none"
    /\ req' = NoRequest
    /\ backend' = NoBackend
    /\ mountPoint' = 0
    /\ links' = <<>>
    /\ storageLinks' = <<>>
    /\ readmeObject' = <<>>
    /\ sorted' = <<>>
    /\ items' = <<>>
    /\ resp' = NoResponse
    /\ calls' = <<>>
    /\ fetched' = NoFetch
    /\ UNCHANGED <<config, cache, goroutines>>

(***************************************************************************)
(* linksFromStorage.                                                       *)
(***************************************************************************)
LowerOf == "H" :> "h" @@ "R" :> "r" @@ "W" :> "w" @@ "X" :> "x"

\* strings.ToLower
ToLower(s) == [i \in 1..Len(s) |-> IF s[i] \in DOMAIN LowerOf THEN LowerOf[s[i]] ELSE s[i]]

ReadmeName == <<"r", "e", "a", "d", "m", "e", ".", "m", "d">>

HexDigits == <<"0", "1", "2", "3", "4", "5", "6", "7", "8", "9", "a", "b", "c", "d", "e", "f">>

\* fmt.Sprintf("%x", md5) of a byte slice: two digits for each byte.
RECURSIVE Hex(_)
Hex(bytes) ==
    IF bytes = <<>> THEN <<>>
    ELSE <<HexDigits[(bytes[1] \div 16) + 1], HexDigits[(bytes[1] % 16) + 1]>>
         \o Hex(Tail(bytes))

StorageItemFullName(attrs, prefix) ==
    [Name |-> attrs.Name, Size |-> <<attrs.Size>>,
     Fingerprint |-> <<Hex(attrs.MD5)>>, ContentType |-> <<attrs.ContentType>>,
     Timestamp |-> <<attrs.Updated>>, Metadata |-> attrs.Metadata]

StorageItem(attrs, prefix) ==
    [Name |-> TrimPrefix(attrs.Name, prefix), Size |-> <<attrs.Size>>,
     Fingerprint |-> <<Hex(attrs.MD5)>>, ContentType |-> <<attrs.ContentType>>,
     Timestamp |-> <<attrs.Updated>>, Metadata |-> attrs.Metadata]

\* The loop over objects.Next(): results are the attrs it yields before
\* iterator.Done or an error, which both end the loop.
RECURSIVE storageLoop(_, _)
storageLoop(results, prefix) ==
    IF results = <<>> THEN [links |-> <<>>, readme |-> <<>>]
    ELSE LET before == storageLoop(SubSeq(results, 1, Len(results) - 1), prefix)
             attrs == results[Len(results)]
             isReadme == ToLower(attrs.Name) = ReadmeName
             rm == IF attrs.Name # <<>> /\ isReadme THEN <<attrs>> ELSE before.readme
         IN  IF attrs.Name # <<>>
             THEN IF (isReadme /\ skipReadme) \/ attrs.Name = prefix
                  THEN [links |-> before.links, readme |-> rm]
                  ELSE [links |-> before.links \o <<StorageItem(attrs, prefix)>>, readme |-> rm]
             ELSE IF attrs.Prefix # <<>>
             THEN [links |-> before.links \o <<Item(TrimPrefix(attrs.Prefix, prefix))>>,
                   readme |-> rm]
             ELSE [links |-> before.links, readme |-> rm]

queryPrefix(m, path) == m.Prefix \o TrimPrefix(path, m.Path)

linksFromStorageNothing(path, results) ==
    LET m == findMountPoint(path)
    IN  IF m = 0
        THEN [mountPoint |-> 0, links |-> <<>>, readme |-> <<>>, calls |-> <<>>]
        ELSE [mountPoint |-> m, links |-> <<>>, readme |-> <<>>,
              calls |-> <<Call("Objects", mountPoints[m].Bucket,
                               queryPrefix(mountPoints[m], path))>>]

linksFromStorage(path, results) ==
    LET m == findMountPoint(path)
    IN  IF m = 0
        THEN [mountPoint |-> 0, links |-> <<>>, readme |-> <<>>, calls |-> <<>>]
        ELSE LET prefix == queryPrefix(mountPoints[m], path)
                 out == storageLoop(results, prefix)
             IN  [mountPoint |-> m, links |-> out.links, readme |-> out.readme,
                  calls |-> <<Call("Objects", mountPoints[m].Bucket, prefix)>>]

(***************************************************************************)
(* fetchReadme and its cache.                                              *)
(***************************************************************************)
rmCacheMaxSize == 16777216

cacheKey(attrs) == <<attrs.Bucket, attrs.Name>>

RECURSIVE purgeNewestFirst(_)
purgeNewestFirst(c) ==
    IF c.rmCacheSize > rmCacheMaxSize /\ Len(c.rmKeys) > 0
    THEN LET key == c.rmKeys[Len(c.rmKeys)]
             size == IF key \in DOMAIN c.rmCache THEN c.rmCache[key].markdown.len ELSE 0
         IN  purgeNewestFirst([rmCacheSize |-> c.rmCacheSize - size,
                               rmCache |-> [k \in DOMAIN c.rmCache \ {key} |-> c.rmCache[k]],
                               rmKeys |-> SubSeq(c.rmKeys, 1, Len(c.rmKeys) - 1),
                               evicted |-> Append(c.evicted, key)])
    ELSE c

RECURSIVE purgeKeepEntry(_)
purgeKeepEntry(c) ==
    IF c.rmCacheSize > rmCacheMaxSize /\ Len(c.rmKeys) > 0
    THEN LET key == c.rmKeys[1]
             size == IF key \in DOMAIN c.rmCache THEN c.rmCache[key].markdown.len ELSE 0
         IN  purgeKeepEntry([rmCacheSize |-> c.rmCacheSize - size,
                             rmCache |-> c.rmCache,
                             rmKeys |-> Tail(c.rmKeys),
                             evicted |-> Append(c.evicted, key)])
    ELSE c

\* The purge loop; evicted collects the keys it deletes.
RECURSIVE purge(_)
purge(c) ==
    IF c.rmCacheSize > rmCacheMaxSize /\ Len(c.rmKeys) > 0
    THEN LET key == c.rmKeys[1]
             size == IF key \in DOMAIN c.rmCache THEN c.rmCache[key].markdown.len ELSE 0
         IN  purge([rmCacheSize |-> c.rmCacheSize - size,
                    rmCache |-> [k \in DOMAIN c.rmCache \ {key} |-> c.rmCache[k]],
                    rmKeys |-> Tail(c.rmKeys),
                    evicted |-> Append(c.evicted, key)])
    ELSE c

cacheHitNever(key, attrs) == FALSE

\* ok && !entry.timestamp.After(attrs.Updated)
cacheHit(key, attrs) ==
    key \in DOMAIN rmCache /\ ~(rmCache[key].timestamp > attrs.Updated)

fetchReadmeCachesPartial(attrs, be) ==
    LET key == cacheKey(attrs)
        now == [rmCache |-> rmCache, rmKeys |-> rmKeys, rmCacheSize |-> rmCacheSize,
                evicted |-> <<>>]
        open == Call("NewReader", attrs.Bucket, attrs.Name)
        close == Call("Close", attrs.Bucket, attrs.Name)
    IN  IF cacheHit(key, attrs)
        THEN [cache |-> now, calls |-> <<>>, err |-> FALSE, markdown |-> rmCache[key].markdown]
        ELSE IF be.readmeRead = "openError"
        THEN [cache |-> now, calls |-> <<open>>, err |-> TRUE, markdown |-> NoMarkdown]
        ELSE LET entry == [markdown |-> be.markdown, timestamp |-> attrs.Updated]
                 stored == [k \in DOMAIN rmCache \cup {key} |->
                               IF k = key THEN entry ELSE rmCache[k]]
                 after == IF key \in DOMAIN rmCache
                          THEN [now EXCEPT !.rmCache = stored]
                          ELSE purge([rmCache |-> stored,
                                      rmKeys |-> Append(rmKeys, key),
                                      rmCacheSize |-> rmCacheSize + be.markdown.len,
                                      evicted |-> <<>>])
             IN  [cache |-> after, calls |-> <<open, close>>,
                  err |-> be.readmeRead = "readError",
                  markdown |-> IF be.readmeRead = "readError" THEN NoMarkdown
                               ELSE be.markdown]

\* The cache after fetchReadme(ctx, attrs), the backend calls it made and
\* what it returned.
fetchReadme(attrs, be) ==
    LET key == cacheKey(attrs)
        now == [rmCache |-> rmCache, rmKeys |-> rmKeys, rmCacheSize |-> rmCacheSize,
                evicted |-> <<>>]
        open == Call("NewReader", attrs.Bucket, attrs.Name)
        close == Call("Close", attrs.Bucket, attrs.Name)
    IN  IF cacheHit(key, attrs)
        THEN [cache |-> now, calls |-> <<>>, err |-> FALSE, markdown |-> rmCache[key].markdown]
        ELSE IF be.readmeRead = "openError"
        THEN [cache |-> now, calls |-> <<open>>, err |-> TRUE, markdown |-> NoMarkdown]
        ELSE IF be.readmeRead = "readError"
        THEN [cache |-> now, calls |-> <<open, close>>, err |-> TRUE, markdown |-> NoMarkdown]
        ELSE LET entry == [markdown |-> be.markdown, timestamp |-> attrs.Updated]
                 stored == [k \in DOMAIN rmCache \cup {key} |->
                               IF k = key THEN entry ELSE rmCache[k]]
                 after == IF key \in DOMAIN rmCache
                          THEN [now EXCEPT !.rmCache = stored]
                          ELSE purge([rmCache |-> stored,
                                      rmKeys |-> Append(rmKeys, key),
                                      rmCacheSize |-> rmCacheSize + be.markdown.len,
                                      evicted |-> <<>>])
             IN  [cache |-> after, calls |-> <<open, close>>, err |-> FALSE,
                  markdown |-> be.markdown]

(***************************************************************************)
(* handleIndex.                                                            *)
(***************************************************************************)
defaultCacheControl == "public, max-age=60, stale-while-revalidate=86400, stale-if-error=86400"

Root == <<"/">>

FaviconName == <<"f", "a", "v", "i", "c", "o", "n", ".", "i", "c", "o">>

indexHeaders(json) ==
    [k \in {"Content-Type", "Last-Modified", "Cache-Control", "Vary"} |->
        CASE k = "Content-Type" -> IF json THEN "application/json" ELSE "text/html"
          [] k = "Last-Modified" -> "now"
          [] k = "Cache-Control" -> defaultCacheControl
          [] k = "Vary" -> "Accept"]

renderNoFavicon(its, path, json, footer) ==
    IF json
    THEN [format |-> "json", parent |-> FALSE, rows |-> its, footer |-> FALSE]
    ELSE [format |-> "html", parent |-> path # Root,
          rows |-> SelectSeq(its, LAMBDA it : it.Name # FaviconName),
          footer |-> footer]

\* What is written to output: the items as JSON, or the HTML rows (with the
\* link to the parent and without the favicon on the root page) and whether
\* the readme footer is rendered.
render(its, path, json, footer) ==
    IF json
    THEN [format |-> "json", parent |-> FALSE, rows |-> its, footer |-> FALSE]
    ELSE [format |-> "html", parent |-> path # Root,
          rows |-> SelectSeq(its, LAMBDA it : ~(it.Name = FaviconName /\ path = Root)),
          footer |-> footer]

Handled(m, ml, sl, rm, srt, its, rsp, cs, c) ==
    [mountPoint |-> m, links |-> ml, storageLinks |-> sl, readmeObject |-> rm,
     sorted |-> srt, items |-> its, resp |-> rsp, calls |-> cs, cache |-> c,
     fetched |-> NoFetch]

CacheNow ==
    [rmCache |-> rmCache, rmKeys |-> rmKeys, rmCacheSize |-> rmCacheSize, evicted |-> <<>>]

\* handleIndex from "var jsonOutput" on.
listIndex(r, be) ==
    LET mounted == linksFromMountPoints(r.path)
        stored == linksFromStorage(r.path, be.listing)
        srt == SortStableFunc(mounted \o stored.links)
        its == CompactFunc(srt)
        footer == ~r.json /\ stored.readme # <<>> /\ readme
        got == IF footer
                   THEN fetchReadme(stored.readme[1], be)
                   ELSE [cache |-> CacheNow, calls |-> <<>>, err |-> FALSE,
                         markdown |-> NoMarkdown]
        out == Handled(stored.mountPoint, mounted, stored.links, stored.readme, srt, its,
                Response(200, indexHeaders(r.json), render(its, r.path, r.json, footer)),
                stored.calls \o got.calls, got.cache)
    IN  [out EXCEPT !.fetched = Fetched(footer, got.err, got.markdown, got.cache.evicted)]

handleIndexHeadLists(r, be) == listIndex(r, be)

handleIndex(r, be) ==
    IF r.method = "HEAD"
    THEN Handled(0, <<>>, <<>>, <<>>, <<>>, <<>>,
                 Response(200, indexHeaders(FALSE), NoBody), <<>>, CacheNow)
    ELSE listIndex(r, be)

(***************************************************************************)
(* handleObject.                                                           *)
(***************************************************************************)
\* t.Format(http.TimeFormat): whole seconds.
FormatHTTPTime(t) == [kind |-> "date", sec |-> t \div TicksPerSecond]

\* time.Parse(http.TimeFormat, value)
ParseHTTPTime(value) == [ok |-> value.kind = "date", t |-> value.sec * TicksPerSecond]

\* t.Truncate(time.Second)
Truncate(t) == t - (t % TicksPerSecond)

Quoted(s) == <<"\"">> \o s \o <<"\"">>

matchesEtagNoWeak(inm, etag) ==
    inm # <<>> /\ Trim(inm, {"\""}) = etag

\* The If-None-Match test.
matchesEtag(inm, etag) ==
    inm # <<>> /\ Trim(TrimPrefix(inm, <<"W", "/">>), {"\""}) = etag

notModifiedSinceNoTruncate(ims, updated) ==
    LET t == ParseHTTPTime(ims) IN t.ok /\ ~(updated > t.t)

\* The If-Modified-Since test.
notModifiedSince(ims, updated) ==
    LET t == ParseHTTPTime(ims) IN t.ok /\ ~(Truncate(updated) > t.t)

attrsFailedIgnored(attrs) == FALSE

\* err != nil after obj.Attrs
attrsFailed(attrs) == ~attrs.ok

RECURSIVE metadataHeaders(_, _, _)
metadataHeaders(h, md, keys) ==
    IF keys = {} THEN h
    ELSE LET k == CHOOSE x \in keys : TRUE
         IN  metadataHeaders(setHeaderIfNotEmpty(h, k, md[k]), md, keys \ {k})

\* "Set headers"
objectHeaders(h, attrs) ==
    LET h1 == SetHeader(h, "Content-Length", attrs.Size)
        h2 == setHeaderIfNotEmpty(h1, "Content-Type", attrs.ContentType)
        h3 == setHeaderIfNotEmpty(h2, "Content-Encoding", attrs.ContentEncoding)
        h4 == setHeaderIfNotEmpty(h3, "Content-Disposition", attrs.ContentDisposition)
        h5 == IF attrs.CacheControl # ""
              THEN SetHeader(h4, "Cache-Control", attrs.CacheControl)
              ELSE SetHeader(h4, "Cache-Control", defaultCacheControl)
        h6 == metadataHeaders(h5, attrs.Metadata, DOMAIN attrs.Metadata)
    IN  SetHeader(h6, "X-Fetched-At", "now")

ObjectBody(state) == [format |-> state, parent |-> FALSE, rows |-> <<>>, footer |-> FALSE]

Served(m, rsp, cs) ==
    Handled(m, <<>>, <<>>, <<>>, <<>>, <<>>, rsp, cs, CacheNow)

\* From "serving object" on.  A copy that fails before a byte is written
\* lets WriteHeader(500) through; once bytes are written the status stays 200
\* and the body is cut short.
streamObject(m, h, be, bucket, name) ==
    LET open == Call("NewReader", bucket, name)
        close == Call("Close", bucket, name)
        h1 == SetHeader(h, "Content-Length", be.attrs.Size)
    IN  CASE be.reader = "openError" ->
                Served(m, Response(500, h, NoBody), <<open>>)
          [] be.reader = "copyFailedEarly" ->
                Served(m, Response(500, h1, NoBody), <<open, close>>)
          [] be.reader = "copyFailedLate" ->
                Served(m, Response(200, h1, ObjectBody("truncated")), <<open, close>>)
          [] OTHER ->
                Served(m, Response(200, h1, ObjectBody("complete")), <<open, close>>)

handleObject(r, be) ==
    LET m == findMountPoint(r.path)
    IN  IF m = 0 THEN Served(0, Response(404, EmptyMap, NoBody), <<>>)
        ELSE LET name == mountPoints[m].Prefix \o TrimPrefix(r.path, mountPoints[m].Path)
                 bucket == mountPoints[m].Bucket
                 attrs == Call("Attrs", bucket, name)
                 h == SetHeader(SetHeader(EmptyMap, "ETag", Quoted(be.attrs.Etag)),
                                "Last-Modified", FormatHTTPTime(be.attrs.Updated))
             IN  IF attrsFailed(be.attrs)
                 THEN Served(m, Response(404, EmptyMap, NoBody), <<attrs>>)
                 ELSE IF matchesEtag(r.inm, be.attrs.Etag) \/ notModifiedSince(r.ims, be.attrs.Updated)
                 THEN Served(m, Response(304, h, NoBody), <<attrs>>)
                 ELSE IF r.method = "HEAD"
                 THEN Served(m, Response(200, objectHeaders(h, be.attrs), NoBody), <<attrs>>)
                 ELSE LET s == streamObject(m, objectHeaders(h, be.attrs), be, bucket, name)
                      IN  [s EXCEPT !.calls = <<attrs>> \o @]

(***************************************************************************)
(* The server: handle dispatches each request to a handler.                *)
(***************************************************************************)
PathChars == {"/", "1", "v"}

\* r.URL.Path of a request: it starts with a slash.
Paths == {p \in SeqsUpTo(PathChars, MaxPathLen) : p # <<>> /\ p[1] = "/"}

Arg(path, bucket, prefix) == MountPoint(path, bucket, prefix)

\* The command lines the server is started with.
ServerArgSeqs ==
    { <<Arg(<<>>, "b1", <<>>)>>,
      <<Arg(<<"1">>, "b1", <<>>), Arg(<<>>, "b2", <<>>)>>,
      <<Arg(<<"1">>, "b1", <<>>), Arg(<<"1">>, "b2", <<>>)>>,
      <<Arg(<<"v">>, "b1", <<"1", "/">>)>>,
      <<Arg(<<"1", "/", "1">>, "b1", <<>>), Arg(<<"1", "/", "v">>, "b2", <<>>),
        Arg(<<>>, "b1", <<>>)>>,
      <<Arg(<<"1">>, "b1", <<>>), Arg(<<"v", "2">>, "b1", <<>>),
        Arg(<<"v", "/", "1">>, "b2", <<>>), Arg(<<"1", "/", "1", "1">>, "b2", <<>>)>> }

Init ==
    /\ mountPoints \in UNION {prepareMountPoints(args) : args \in ServerArgSeqs}
    /\ versionSort \in BOOLEAN
    /\ skipReadme = FALSE
    /\ readme = FALSE
    /\ rmCache = EmptyMap
    /\ rmKeys = <<>>
    /\ rmCacheSize = 0
    /\ goroutines = NoGoroutines
    /\ Idle

Times == 0..MaxTick

Etag == <<"H">>

ObjectAttrs(bucket, name, updated) ==
    [NoAttrs EXCEPT !.ok = TRUE, !.Bucket = bucket, !.Name = name, !.Size = 10,
                    !.MD5 = <<171, 12>>, !.Etag = Etag, !.ContentType = "text/plain",
                    !.Updated = updated, !.Metadata = [k \in {"X-Meta"} |-> "m"]]

PrefixAttrs(prefix) == [NoAttrs EXCEPT !.ok = TRUE, !.Prefix = prefix]

\* What a listing under prefix may yield: objects (the placeholder named as
\* the prefix itself among them), common prefixes, a result with neither name.
ListingResults(bucket, prefix) ==
    {ObjectAttrs(bucket, prefix \o n, 1) : n \in {<<>>, <<"1">>, <<"v", "/">>}}
    \cup {PrefixAttrs(prefix \o n) : n \in {<<"1", "/">>, <<"v", "/">>}}
    \cup {[NoAttrs EXCEPT !.ok = TRUE]}

IfNoneMatchValues ==
    {<<>>, Quoted(Etag), <<"W", "/">> \o Quoted(Etag), Etag, Quoted(<<"X">>)}

IfModifiedSinceValues ==
    {NoHeader, [kind |-> "garbage", sec |-> 0]} \cup {FormatHTTPTime(t) : t \in Times}

methodAllowed(method) == method \in {"GET", "HEAD"}

isIndexPath(path) == HasSuffix(path, <<"/">>)

Respond(r, be, out) ==
    /\ pc' = "responded"
    /\ req' = r
    /\ backend' = be
    /\ mountPoint' = out.mountPoint
    /\ links' = out.links
    /\ storageLinks' = out.storageLinks
    /\ readmeObject' = out.readmeObject
    /\ sorted' = out.sorted
    /\ items' = out.items
    /\ resp' = out.resp
    /\ calls' = out.calls
    /\ fetched' = out.fetched
    /\ rmCache' = out.cache.rmCache
    /\ rmKeys' = out.cache.rmKeys
    /\ rmCacheSize' = out.cache.rmCacheSize
    /\ UNCHANGED <<config, goroutines>>

HandleNotAllowed ==
    /\ pc = "accept"
    /\ \E method \in {"POST"} : \E path \in Paths :
        /\ ~methodAllowed(method)
        /\ Respond(Request(method, path, <<>>, NoHeader, FALSE), NoBackend,
                   Served(0, Response(405, EmptyMap, NoBody), <<>>))
    /\ op' = "handle"

IndexBackends(r) ==
    LET m == findMountPoint(r.path)
    IN  IF r.method = "HEAD" \/ m = 0 THEN {NoBackend}
        ELSE {Backend(NoAttrs, listing, listErr, "none", "none", NoMarkdown) :
                listing \in SeqsUpTo(ListingResults(mountPoints[m].Bucket,
                                                    queryPrefix(mountPoints[m], r.path)),
                                     MaxListing),
                listErr \in BOOLEAN}

HandleIndex ==
    /\ pc = "accept"
    /\ \E method \in {"GET", "HEAD"} : \E path \in Paths : \E json \in BOOLEAN :
        LET r == Request(method, path, <<>>, NoHeader, json)
        IN  /\ methodAllowed(method)
            /\ isIndexPath(path)
            /\ method = "HEAD" => ~json
            /\ \E be \in IndexBackends(r) : Respond(r, be, handleIndex(r, be))
    /\ op' = "handleIndex"

ObjectBackends(r) ==
    LET m == findMountPoint(r.path)
    IN  IF m = 0 THEN {NoBackend}
        ELSE {Backend([NoAttrs EXCEPT !.err = e], <<>>, FALSE, "none", "none", NoMarkdown) :
                 e \in {"storage: object doesn't exist", "context canceled"}}
             \cup {Backend(ObjectAttrs(mountPoints[m].Bucket,
                                      queryPrefix(mountPoints[m], r.path), t),
                           <<>>, FALSE, reader, "none", NoMarkdown) :
                     t \in Times,
                     reader \in IF r.method = "HEAD" THEN {"none"}
                                ELSE {"openError", "copyFailedEarly", "copyFailedLate", "copied"}}

HandleObject ==
    /\ pc = "accept"
    /\ \E method \in {"GET", "HEAD"} : \E path \in Paths :
       \E inm \in IfNoneMatchValues : \E ims \in IfModifiedSinceValues :
        LET r == Request(method, path, inm, ims, FALSE)
        IN  /\ methodAllowed(method)
            /\ ~isIndexPath(path)
            /\ \E be \in ObjectBackends(r) : Respond(r, be, handleObject(r, be))
    /\ op' = "handleObject"

Next == HandleNotAllowed \/ HandleIndex \/ HandleObject \/ Accept

Spec == Init /\ [][Next]_vars

(***************************************************************************)
(* SpecMount: the mount table alone, over every small mount configuration. *)
(***************************************************************************)
MountChars == {"/", "1"}

MountArgs ==
    {MountPoint(p, b, <<>>) : p \in SeqsUpTo(MountChars, MaxArgLen), b \in {"b1"}}

MountArgSeqs == UNION {[1..k -> MountArgs] : k \in 1..MaxMounts}

MountPaths == SeqsUpTo(MountChars, MaxPathLen)

InitMount ==
    /\ mountPoints \in UNION {prepareMountPoints(args) : args \in MountArgSeqs}
    /\ versionSort = FALSE
    /\ skipReadme = FALSE
    /\ readme = FALSE
    /\ rmCache = EmptyMap
    /\ rmKeys = <<>>
    /\ rmCacheSize = 0
    /\ goroutines = NoGoroutines
    /\ Idle

FindMountPoint ==
    /\ pc = "accept"
    /\ \E path \in MountPaths :
        /\ req' = Request("", path, <<>>, NoHeader, FALSE)
        /\ mountPoint' = findMountPoint(path)
    /\ op' = "findMountPoint"
    /\ pc' = "responded"
    /\ UNCHANGED <<config, cache, backend, links, storageLinks, readmeObject, sorted, items, resp, calls, fetched, goroutines>>

LinksFromMountPoints ==
    /\ pc = "accept"
    /\ \E path \in MountPaths :
        /\ req' = Request("", path, <<>>, NoHeader, FALSE)
        /\ links' = linksFromMountPoints(path)
    /\ op' = "linksFromMountPoints"
    /\ pc' = "responded"
    /\ UNCHANGED <<config, cache, backend, mountPoint, storageLinks, readmeObject, sorted, items, resp, calls, fetched, goroutines>>

NextMount == FindMountPoint \/ LinksFromMountPoints \/ Accept

SpecMount == InitMount /\ [][NextMount]_vars

(***************************************************************************)
(* SpecCache: renderReadme -> fetchReadme called again and again, one call *)
(* at a time, for readme objects whose content and last-modified instant   *)
(* the backend chooses.                                                    *)
(***************************************************************************)
\* One sixteenth of the byte budget.
Unit == rmCacheMaxSize \div 16

Stamps == 1..MaxStamp

ReadmeVariant == <<"R", "e", "a", "d", "m", "e", ".", "m", "d">>

ReadmeObjects ==
    {ObjectAttrs(o[1], o[2], t) :
        o \in {<<"b1", ReadmeName>>, <<"b1", ReadmeVariant>>, <<"b2", ReadmeName>>},
        t \in Stamps}

\* What the object holds when it is read: a content of which two fit in the
\* budget and three do not, or one of twice the budget.
Markdowns ==
    {[text |-> "a", len |-> 6 * Unit], [text |-> "b", len |-> 33 * Unit]}

ReadmeBackends ==
    {Backend(NoAttrs, <<>>, FALSE, "none", e, NoMarkdown) : e \in {"openError", "readError"}}
    \cup {Backend(NoAttrs, <<>>, FALSE, "none", "read", md) : md \in Markdowns}

InitCache ==
    /\ mountPoints \in prepareMountPoints(<<Arg(<<>>, "b1", <<>>), Arg(<<"1">>, "b2", <<>>)>>)
    /\ versionSort = FALSE
    /\ skipReadme = FALSE
    /\ readme = TRUE
    /\ rmCache = EmptyMap
    /\ rmKeys = <<>>
    /\ rmCacheSize = 0
    /\ goroutines = NoGoroutines
    /\ Idle

FetchReadme ==
    /\ \E attrs \in ReadmeObjects : \E be \in ReadmeBackends :
        LET out == fetchReadme(attrs, be)
        IN  /\ out.cache.rmCacheSize \in (0 - MaxCounter * Unit)..(MaxCounter * Unit)
            /\ readmeObject' = <<attrs>>
            /\ backend' = be
            /\ calls' = out.calls
            /\ fetched' = Fetched(TRUE, out.err, out.markdown, out.cache.evicted)
            /\ rmCache' = out.cache.rmCache
            /\ rmKeys' = out.cache.rmKeys
            /\ rmCacheSize' = out.cache.rmCacheSize
    /\ op' = "fetchReadme"
    /\ pc' = "responded"
    /\ UNCHANGED <<config, req, mountPoint, links, storageLinks, sorted, items, resp, goroutines>>

NextCache == FetchReadme \/ Accept

SpecCache == InitCache /\ [][NextCache]_vars

(***************************************************************************)
(* SpecConc: fetchReadme run by the goroutines of requests that are        *)
(* handled at the same time.  The code takes no lock, so the statements of *)
(* the calls interleave; each action is one statement (one iteration for   *)
(* the purge loop).  Every object keeps one content and one last-modified  *)
(* instant, so no entry is ever overwritten with another length.           *)
(***************************************************************************)
ConcObjects ==
    {ObjectAttrs(o[1], o[2], 1) : o \in {<<"b1", ReadmeName>>, <<"b2", ReadmeName>>}}

ConcMarkdown == [text |-> "a", len |-> 6 * Unit]

Others == <<config, pc, op, req, backend, mountPoint, links, storageLinks, readmeObject,
            sorted, items, resp, calls, fetched>>

At(g, at) == goroutines[g].at = at

Goto(g, at) == goroutines' = [goroutines EXCEPT ![g].at = at]

\* renderReadme calls fetchReadme(ctx, attrs).
CallFetchReadme(g) ==
    /\ At(g, "idle")
    /\ \E attrs \in ConcObjects :
        goroutines' = [goroutines EXCEPT ![g] = Goroutine("check", attrs, NoMarkdown, FALSE)]
    /\ UNCHANGED <<cache, Others>>

\* if entry, ok := rmCache[key]; ok && !entry.timestamp.After(attrs.Updated)
CheckCache(g) ==
    /\ At(g, "check")
    /\ LET attrs == goroutines[g].attrs
       IN  IF cacheHit(cacheKey(attrs), attrs)
           THEN goroutines' = [goroutines EXCEPT
                    ![g].at = "return", ![g].markdown = rmCache[cacheKey(attrs)].markdown]
           ELSE Goto(g, "read")
    /\ UNCHANGED <<cache, Others>>

\* obj.NewReader, readme.ReadFrom: an error returns, a full read goes on.
ReadObject(g) ==
    /\ At(g, "read")
    /\ \/ Goto(g, "return")
       \/ goroutines' = [goroutines EXCEPT ![g].at = "wasInCache", ![g].markdown = ConcMarkdown]
    /\ UNCHANGED <<cache, Others>>

\* var _, wasInCache = rmCache[key]
WasInCache(g) ==
    /\ At(g, "wasInCache")
    /\ goroutines' = [goroutines EXCEPT
            ![g].at = "store",
            ![g].wasInCache = cacheKey(goroutines[g].attrs) \in DOMAIN rmCache]
    /\ UNCHANGED <<cache, Others>>

\* rmCache[key] = readmeCacheEntry{...}
Store(g) ==
    /\ At(g, "store")
    /\ LET key == cacheKey(goroutines[g].attrs)
           entry == [markdown |-> goroutines[g].markdown,
                     timestamp |-> goroutines[g].attrs.Updated]
       IN  rmCache' = [k \in DOMAIN rmCache \cup {key} |->
                          IF k = key THEN entry ELSE rmCache[k]]
    /\ Goto(g, IF goroutines[g].wasInCache THEN "return" ELSE "addSize")
    /\ UNCHANGED <<rmKeys, rmCacheSize, Others>>

\* rmCacheSize += len(markdown)
AddSize(g) ==
    /\ At(g, "addSize")
    /\ rmCacheSize + goroutines[g].markdown.len <= MaxCounter * Unit
    /\ rmCacheSize' = rmCacheSize + goroutines[g].markdown.len
    /\ Goto(g, "appendKey")
    /\ UNCHANGED <<rmCache, rmKeys, Others>>

\* rmKeys = append(rmKeys, key)
AppendKey(g) ==
    /\ At(g, "appendKey")
    /\ rmKeys' = Append(rmKeys, cacheKey(goroutines[g].attrs))
    /\ Goto(g, "purge")
    /\ UNCHANGED <<rmCache, rmCacheSize, Others>>

\* One test of the purge loop and, when it holds, one iteration.
Purge(g) ==
    /\ At(g, "purge")
    /\ IF rmCacheSize > rmCacheMaxSize /\ Len(rmKeys) > 0
       THEN LET key == rmKeys[1]
                size == IF key \in DOMAIN rmCache THEN rmCache[key].markdown.len ELSE 0
            IN  /\ rmCacheSize' = rmCacheSize - size
                /\ rmCache' = [k \in DOMAIN rmCache \ {key} |-> rmCache[k]]
                /\ rmKeys' = Tail(rmKeys)
                /\ UNCHANGED goroutines
       ELSE /\ Goto(g, "return")
            /\ UNCHANGED cache
    /\ UNCHANGED Others

\* return markdown, nil / return nil, err
Return(g) ==
    /\ At(g, "return")
    /\ goroutines' = [goroutines EXCEPT ![g] = Goroutine("idle", NoAttrs, NoMarkdown, FALSE)]
    /\ UNCHANGED <<cache, Others>>

NextConc ==
    \E g \in 1..MaxGoroutines :
        \/ CallFetchReadme(g)
        \/ CheckCache(g)
        \/ ReadObject(g)
        \/ WasInCache(g)
        \/ Store(g)
        \/ AddSize(g)
        \/ AppendKey(g)
        \/ Purge(g)
        \/ Return(g)

SpecConc == InitCache /\ [][NextConc]_vars

(***************************************************************************)
(* SpecListing: GET of directory paths under every combination of the      *)
(* flags, with listings that hold the placeholder of the directory,        *)
(* readme.md in two spellings, favicon.ico and versioned names.            *)
(***************************************************************************)
ListingArgSeqs ==
    { <<Arg(<<>>, "b1", <<>>)>>,
      <<Arg(<<"1">>, "b2", <<>>), Arg(<<>>, "b1", <<>>)>> }

InitListing ==
    /\ mountPoints \in UNION {prepareMountPoints(args) : args \in ListingArgSeqs}
    /\ versionSort \in BOOLEAN
    /\ skipReadme \in BOOLEAN
    /\ readme \in BOOLEAN
    /\ rmCache = EmptyMap
    /\ rmKeys = <<>>
    /\ rmCacheSize = 0
    /\ goroutines = NoGoroutines
    /\ Idle

DirectoryResults(bucket, prefix) ==
    {ObjectAttrs(bucket, prefix \o n, 1) :
        n \in {<<>>, ReadmeName, ReadmeVariant, FaviconName}}
    \cup {PrefixAttrs(prefix \o n) : n \in {<<"v", "/">>, <<"v", "2", "/">>}}

\* The listings of the directory and, when one holds a readme.md, how
\* reading it ends.
DirectoryBackends(r) ==
    LET m == findMountPoint(r.path)
        reads(listing) ==
            IF \E i \in 1..Len(listing) : HasSuffix(ToLower(listing[i].Name), ReadmeName)
            THEN {"read", "readError"} ELSE {"none"}
    IN  IF m = 0 THEN {NoBackend}
        ELSE UNION {{Backend(NoAttrs, listing, FALSE, "none", rd, ConcMarkdown) :
                        rd \in reads(listing)} :
                    listing \in SeqsUpTo(DirectoryResults(mountPoints[m].Bucket,
                                                          queryPrefix(mountPoints[m], r.path)),
                                         MaxListing)}

ListDirectory ==
    /\ pc = "accept"
    /\ \E path \in Paths : \E json \in BOOLEAN :
        LET r == Request("GET", path, <<>>, NoHeader, json)
        IN  /\ isIndexPath(path)
            /\ \E be \in DirectoryBackends(r) : Respond(r, be, handleIndex(r, be))
    /\ op' = "handleIndex"

NextListing == ListDirectory \/ Accept

SpecListing == InitListing /\ [][NextListing]_vars

(***************************************************************************)
(* SpecObject: handleObject run statement by statement, from the call of   *)
(* findMountPoint to the deferred reader.Close(), next to GET requests of  *)
(* directories that hold a readme.md, whose NewReader or ReadFrom may      *)
(* fail.  pc is the statement the handler is at; calls grows with each     *)
(* call of the backend.                                                    *)
(***************************************************************************)
ObjectExits == {"notFound", "notModified", "done", "streamError"}

\* The request enters handleObject.
ServeObject ==
    /\ pc = "accept"
    /\ \E method \in {"GET", "HEAD"} : \E path \in Paths :
       \E inm \in {<<>>, Quoted(Etag)} : \E ims \in {NoHeader, FormatHTTPTime(MaxTick)} :
        LET r == Request(method, path, inm, ims, FALSE)
        IN  /\ ~isIndexPath(path)
            /\ \E be \in ObjectBackends(r) : req' = r /\ backend' = be
    /\ op' = "handleObject"
    /\ pc' = "findMountPoint"
    /\ UNCHANGED <<config, cache, goroutines, mountPoint, links, storageLinks, readmeObject,
                   sorted, items, resp, calls, fetched>>

\* var mountPoint = findMountPoint(r.URL.Path)
ResolveObject ==
    /\ pc = "findMountPoint"
    /\ mountPoint' = findMountPoint(req.path)
    /\ IF mountPoint' = 0
       THEN resp' = Response(404, EmptyMap, NoBody) /\ pc' = "notFound"
       ELSE resp' = resp /\ pc' = "Attrs"
    /\ UNCHANGED <<config, cache, goroutines, op, req, backend, links, storageLinks,
                   readmeObject, sorted, items, calls, fetched>>

\* attrs, err := obj.Attrs(r.Context())
GetAttrs ==
    /\ pc = "Attrs"
    /\ calls' = Append(calls, Call("Attrs", mountPoints[mountPoint].Bucket,
                                   queryPrefix(mountPoints[mountPoint], req.path)))
    /\ IF attrsFailed(backend.attrs)
       THEN resp' = Response(404, EmptyMap, NoBody) /\ pc' = "notFound"
       ELSE resp' = resp /\ pc' = "conditional"
    /\ UNCHANGED <<config, cache, goroutines, op, req, backend, mountPoint, links,
                   storageLinks, readmeObject, sorted, items, fetched>>

\* From h.Set("ETag", ...) to h.Set("X-Fetched-At", ...): the conditional
\* request is answered 304, or the headers of the object are set.
CheckConditions ==
    /\ pc = "conditional"
    /\ LET h == SetHeader(SetHeader(EmptyMap, "ETag", Quoted(backend.attrs.Etag)),
                          "Last-Modified", FormatHTTPTime(backend.attrs.Updated))
       IN  IF \/ matchesEtag(req.inm, backend.attrs.Etag)
              \/ notModifiedSince(req.ims, backend.attrs.Updated)
           THEN resp' = Response(304, h, NoBody) /\ pc' = "notModified"
           ELSE resp' = Response(0, objectHeaders(h, backend.attrs), NoBody) /\ pc' = "method"
    /\ UNCHANGED <<config, cache, goroutines, op, req, backend, mountPoint, links,
                   storageLinks, readmeObject, sorted, items, calls, fetched>>

\* if r.Method == http.MethodHead { return }: the server answers 200 with
\* the headers and no body.
CheckMethod ==
    /\ pc = "method"
    /\ IF req.method = "HEAD"
       THEN resp' = [resp EXCEPT !.status = 200] /\ pc' = "done"
       ELSE resp' = resp /\ pc' = "NewReader"
    /\ UNCHANGED <<config, cache, goroutines, op, req, backend, mountPoint, links,
                   storageLinks, readmeObject, sorted, items, calls, fetched>>

\* Where the handler goes when obj.NewReader fails.
afterOpenErrorRetry == "NewReader"

afterOpenError == "streamError"

\* reader, err := obj.NewReader(r.Context()), and the Content-Length set
\* again from the reader.
OpenReader ==
    /\ pc = "NewReader"
    /\ calls' = Append(calls, Call("NewReader", mountPoints[mountPoint].Bucket,
                                   queryPrefix(mountPoints[mountPoint], req.path)))
    /\ IF backend.reader = "openError"
       THEN resp' = [resp EXCEPT !.status = 500] /\ pc' = afterOpenError
       ELSE /\ resp' = [resp EXCEPT !.headers = SetHeader(@, "Content-Length",
                                                          backend.attrs.Size)]
            /\ pc' = "Copy"
    /\ UNCHANGED <<config, cache, goroutines, op, req, backend, mountPoint, links,
                   storageLinks, readmeObject, sorted, items, fetched>>

\* io.Copy(w, reader)
CopyObject ==
    /\ pc = "Copy"
    /\ CASE backend.reader = "copyFailedEarly" ->
                resp' = [resp EXCEPT !.status = 500] /\ pc' = "streamError"
         [] backend.reader = "copyFailedLate" ->
                /\ resp' = [resp EXCEPT !.status = 200, !.body = ObjectBody("truncated")]
                /\ pc' = "streamError"
         [] OTHER ->
                /\ resp' = [resp EXCEPT !.status = 200, !.body = ObjectBody("complete")]
                /\ pc' = "done"
    /\ UNCHANGED <<config, cache, goroutines, op, req, backend, mountPoint, links,
                   storageLinks, readmeObject, sorted, items, calls, fetched>>

deferredCallsNone(cs, be) == <<>>

\* defer reader.Close(): registered once NewReader has returned a reader.
deferredCalls(cs, be) ==
    IF be.reader # "openError" /\ \E i \in 1..Len(cs) : cs[i].fn = "NewReader"
    THEN LET i == CHOOSE i \in 1..Len(cs) : cs[i].fn = "NewReader"
         IN  <<Call("Close", cs[i].bucket, cs[i].name)>>
    ELSE <<>>

\* handleObject returns: the deferred calls run.
ReturnObject ==
    /\ pc \in ObjectExits
    /\ calls' = calls \o deferredCalls(calls, backend)
    /\ pc' = "responded"
    /\ UNCHANGED <<config, cache, goroutines, op, req, backend, mountPoint, links,
                   storageLinks, readmeObject, sorted, items, resp, fetched>>

\* The listing of a directory holds readme.md; how reading it ends.
ReadmeDirectoryBackends(r) ==
    LET m == findMountPoint(r.path)
    IN  IF m = 0 THEN {NoBackend}
        ELSE {Backend(NoAttrs,
                      <<ObjectAttrs(mountPoints[m].Bucket,
                                    queryPrefix(mountPoints[m], r.path) \o ReadmeName, t)>>,
                      FALSE, "none", rd, ConcMarkdown) :
                t \in Stamps, rd \in {"openError", "readError", "read"}}

ListReadme ==
    /\ pc = "accept"
    /\ \E path \in Paths :
        LET r == Request("GET", path, <<>>, NoHeader, FALSE)
        IN  /\ isIndexPath(path)
            /\ \E be \in ReadmeDirectoryBackends(r) : Respond(r, be, handleIndex(r, be))
    /\ op' = "handleIndex"

NextObject ==
    \/ ServeObject \/ ResolveObject \/ GetAttrs \/ CheckConditions \/ CheckMethod
    \/ OpenReader \/ CopyObject \/ ReturnObject \/ ListReadme \/ Accept

\* The server is started with the two mount points of InitCache, or with
\* the second one alone: then some paths have no mount point.
InitObject ==
    /\ mountPoints \in prepareMountPoints(<<Arg(<<>>, "b1", <<>>), Arg(<<"1">>, "b2", <<>>)>>)
                        \cup prepareMountPoints(<<Arg(<<"1">>, "b2", <<>>)>>)
    /\ versionSort = FALSE
    /\ skipReadme = FALSE
    /\ readme = TRUE
    /\ rmCache = EmptyMap
    /\ rmKeys = <<>>
    /\ rmCacheSize = 0
    /\ goroutines = NoGoroutines
    /\ Idle

SpecObject == InitObject /\ [][NextObject]_vars

(***************************************************************************)
(* Vocabulary of the claims about the server.                              *)
(***************************************************************************)
IndexListed == pc = "responded" /\ op = "handleIndex" /\ req.method = "GET"

ObjectServed == pc = "responded" /\ op = "handleObject"

HasSize(it) == it.Size # <<>>

Opened == \E i \in 1..Len(calls) : calls[i].fn = "NewReader"

\* The If-None-Match value without an optional W/ and its surrounding quotes.
Validator(inm) == Trim(TrimPrefix(inm, <<"W", "/">>), {"\""})

(***************************************************************************)
(* C1.  findMountPoint returns nil exactly when no mount point's Path is a *)
(* prefix of the path; otherwise it returns a mount point whose Path is a  *)
(* prefix of the path, no matching mount point has a longer Path, and      *)
(* among the matching mount points of that length its Path is the          *)
(* lexicographically earliest.                                             *)
(***************************************************************************)
Matching(path) == {i \in 1..Len(mountPoints) : HasPrefix(path, mountPoints[i].Path)}

C1_LongestPrefixWins ==
    (pc = "responded" /\ op = "findMountPoint") =>
        LET hit == Matching(req.path)
        IN  /\ (mountPoint = 0) <=> (hit = {})
            /\ mountPoint # 0 =>
                /\ mountPoint \in hit
                /\ \A j \in hit :
                    /\ Len(mountPoints[j].Path) <= Len(mountPoints[mountPoint].Path)
                    /\ Len(mountPoints[j].Path) = Len(mountPoints[mountPoint].Path)
                        => Compare(mountPoints[mountPoint].Path, mountPoints[j].Path) <= 0

\* Two mount points of different lengths match the path, one is returned.
C1_Witness ==
    /\ pc = "responded" /\ op = "findMountPoint" /\ mountPoint # 0
    /\ \E i \in Matching(req.path) : \E j \in Matching(req.path) :
            Len(mountPoints[i].Path) < Len(mountPoints[j].Path)

(***************************************************************************)
(* C2.  linksFromMountPoints emits one name per mount point whose Path     *)
(* differs from the path and has the path as a prefix, in mountPoints'     *)
(* order, and no other; each name is the first segment of that Path after  *)
(* the path, up to and including its first slash; a mount point whose Path *)
(* equals the path is not emitted.                                         *)
(***************************************************************************)
Nested(path) ==
    {i \in 1..Len(mountPoints) :
        mountPoints[i].Path # path /\ HasPrefix(mountPoints[i].Path, path)}

\* The k-th smallest element of a set of numbers.
Nth(S, k) == CHOOSE i \in S : Cardinality({j \in S : j < i}) = k - 1

IsFirstSegment(name, rest) ==
    /\ name # <<>>
    /\ HasPrefix(rest, name)
    /\ name[Len(name)] = "/"
    /\ \A i \in 1..(Len(name) - 1) : name[i] # "/"

C2_ChildrenOf ==
    (pc = "responded" /\ op = "linksFromMountPoints") =>
        LET path == req.path
            nested == Nested(path)
        IN  /\ Len(links) = Cardinality(nested)
            /\ \A k \in 1..Len(links) :
                LET m == mountPoints[Nth(nested, k)]
                IN  /\ IsFirstSegment(links[k].Name, SubSeq(m.Path, Len(path) + 1, Len(m.Path)))
                    /\ links[k].Size = <<>>

\* A mount point equal to the path is skipped and a deeper one is cut to its
\* first segment.
C2_Witness ==
    /\ pc = "responded" /\ op = "linksFromMountPoints"
    /\ \E i \in 1..Len(mountPoints) : mountPoints[i].Path = req.path
    /\ \E k \in 1..Len(links) :
            Len(links[k].Name) + Len(req.path) < Len(mountPoints[Nth(Nested(req.path), k)].Path)

(***************************************************************************)
(* C3.  With version-aware sort disabled, in the listing of a directory    *)
(* request every item with a size precedes every item without one, and     *)
(* within each of the two groups the names ascend lexicographically.       *)
(***************************************************************************)
C3_GroupedAndAscending ==
    (IndexListed /\ ~versionSort) =>
        \A i \in 1..Len(items) : \A j \in 1..Len(items) :
            i < j =>
                /\ ~(~HasSize(items[i]) /\ HasSize(items[j]))
                /\ HasSize(items[i]) = HasSize(items[j])
                    => Compare(items[i].Name, items[j].Name) <= 0

\* Objects and directories arrive out of order and are put in order.
C3_Witness ==
    /\ IndexListed /\ ~versionSort
    /\ links \o storageLinks # sorted
    /\ Cardinality({i \in 1..Len(items) : HasSize(items[i])}) >= 2
    /\ \E i \in 1..Len(items) : ~HasSize(items[i])

(***************************************************************************)
(* C4.  The listing is the sorted sequence without the items whose         *)
(* predecessor in the sorted sequence has the same name, and no other item *)
(* is removed.  The specification adds that an item with a size and an     *)
(* item without one that share a name are never merged, both are in the    *)
(* listing.  The code keeps both unless the last item with a size and the  *)
(* first item without one share the name; these two are adjacent and the   *)
(* item without a size is removed.                                         *)
(***************************************************************************)
Kept == {i \in 1..Len(sorted) : i = 1 \/ sorted[i].Name # sorted[i - 1].Name}

RemovesExactlyRepeats ==
    /\ Len(items) = Cardinality(Kept)
    /\ \A k \in 1..Len(items) : items[k] = sorted[Nth(Kept, k)]

\* The names carried both by an item with a size and by one without.
MixedNames ==
    {sorted[i].Name : i \in {i \in 1..Len(sorted) :
        /\ HasSize(sorted[i])
        /\ \E j \in 1..Len(sorted) : ~HasSize(sorted[j]) /\ sorted[j].Name = sorted[i].Name}}

Listed(name, sized) ==
    \E k \in 1..Len(items) : items[k].Name = name /\ HasSize(items[k]) = sized

NumSized == Cardinality({i \in 1..Len(sorted) : HasSize(sorted[i])})

\* The last item with a size and the first without one are both called name.
AtBoundary(name) ==
    /\ NumSized >= 1 /\ NumSized < Len(sorted)
    /\ sorted[NumSized].Name = name /\ sorted[NumSized + 1].Name = name

C5_NoRepeatedNameOfAKind ==
    IndexListed =>
        \A i \in 1..Len(items) : \A j \in 1..Len(items) :
            (i < j /\ HasSize(items[i]) = HasSize(items[j]))
                => items[i].Name # items[j].Name

(***************************************************************************)
(* C6.  A GET of an object whose Attrs() succeeds and whose If-None-Match, *)
(* without an optional W/ and its surrounding quotes, is the object's      *)
(* Etag, is answered 304 without a body and without opening a reader,      *)
(* whatever If-Modified-Since it carries.                                  *)
(***************************************************************************)
C6_IfNoneMatchHit ==
    (ObjectServed /\ req.method = "GET" /\ backend.attrs.ok
        /\ req.inm # <<>> /\ Validator(req.inm) = backend.attrs.Etag) =>
        /\ resp.status = 304
        /\ resp.body = NoBody
        /\ ~Opened

\* A weak validator hits although If-Modified-Since alone would not.
C6_Witness ==
    /\ ObjectServed /\ req.method = "GET" /\ backend.attrs.ok
    /\ req.inm = <<"W", "/">> \o Quoted(backend.attrs.Etag)
    /\ req.ims.kind = "date" /\ req.ims.sec * TicksPerSecond < Truncate(backend.attrs.Updated)
    /\ resp.status = 304

(***************************************************************************)
(* C7.  An object request whose Attrs() succeeds and whose If-None-Match   *)
(* is present with a value other than the object's Etag is never answered  *)
(* 304, whatever If-Modified-Since it carries.                             *)
(***************************************************************************)
C7_IfNoneMatchMissIsFull ==
    (ObjectServed /\ backend.attrs.ok
        /\ req.inm # <<>> /\ Validator(req.inm) # backend.attrs.Etag) =>
        resp.status # 304

(***************************************************************************)
(* C8.  An object request without If-None-Match whose Attrs() succeeds:    *)
(* when If-Modified-Since parses as t, the answer is 304 exactly when the  *)
(* object's Updated, truncated to the second, is not after t; when it is   *)
(* absent or does not parse, the full response is served.  The             *)
(* specification adds: never with an error status.  The code serves it     *)
(* with status 200, or 500 exactly when the reader cannot be opened or the *)
(* copy fails before a byte is written; never 304 and never a 4xx status.  *)
(***************************************************************************)
Unconditional == ObjectServed /\ backend.attrs.ok /\ req.inm = <<>>

SinceDecides ==
    req.ims.kind = "date" =>
        (resp.status = 304
            <=> (backend.attrs.Updated \div TicksPerSecond) <= req.ims.sec)

\* C8 as the specification states it: without a date the status is 200.
C8_IgnoredNeverAnError ==
    Unconditional =>
        /\ SinceDecides
        /\ req.ims.kind # "date" =>
            /\ resp.status = 200
            /\ "Content-Length" \in DOMAIN resp.headers

\* C8 as the code has it: the date decides 304; without a date the status
\* is 200, or 500 exactly when the stream fails before a byte is written.
C8_IgnoredFullResponse ==
    Unconditional =>
        /\ SinceDecides
        /\ req.ims.kind # "date" =>
            /\ resp.status \in {200, 500}
            /\ resp.status = 500 <=> backend.reader \in {"openError", "copyFailedEarly"}
            /\ "Content-Length" \in DOMAIN resp.headers

\* Updated is half a second after the date sent: still not modified.
C8_Witness ==
    /\ Unconditional /\ req.ims.kind = "date"
    /\ backend.attrs.Updated > req.ims.sec * TicksPerSecond
    /\ resp.status = 304

(***************************************************************************)
(* C9.  An object request whose path no mount point matches, or whose      *)
(* Attrs() fails with any error, is answered 404; no reader is opened and  *)
(* no ETag is set or compared.                                             *)
(***************************************************************************)
C9_NotFound ==
    (ObjectServed /\ (mountPoint = 0 \/ ~backend.attrs.ok)) =>
        /\ resp.status = 404
        /\ resp.body = NoBody
        /\ ~Opened
        /\ "ETag" \notin DOMAIN resp.headers
        /\ mountPoint = 0 => calls = <<>>

\* Attrs() fails for a request that carries a matching If-None-Match.
C9_Witness ==
    /\ ObjectServed /\ mountPoint # 0 /\ ~backend.attrs.ok
    /\ backend.attrs.err = "context canceled"
    /\ req.inm = Quoted(Etag)
    /\ resp.status = 404

(***************************************************************************)
(* C10.  A HEAD request opens no reader and writes no body.  For an object *)
(* path its status is 200, 304 or 404 and is the status of the GET with    *)
(* the same path and headers whenever that is one of these three; for a    *)
(* directory path it is 200 and the backend is not called.                 *)
(***************************************************************************)
GetStatus(reader) ==
    handleObject([req EXCEPT !.method = "GET"],
                 [backend EXCEPT !.reader = reader]).resp.status

C10_HeadHasNoBody ==
    (pc = "responded" /\ req.method = "HEAD") =>
        /\ ~Opened
        /\ resp.body = NoBody
        /\ op = "handleIndex" => (resp.status = 200 /\ calls = <<>>)
        /\ op = "handleObject" =>
            /\ resp.status \in {200, 304, 404}
            /\ GetStatus("copied") = resp.status
            /\ \A reader \in {"openError", "copyFailedEarly", "copyFailedLate"} :
                GetStatus(reader) \in {200, 304, 404} => GetStatus(reader) = resp.status

\* A HEAD of an object that a GET would stream.
C10_Witness ==
    /\ ObjectServed /\ req.method = "HEAD" /\ backend.attrs.ok
    /\ resp.status = 200
    /\ "Content-Length" \in DOMAIN resp.headers

(***************************************************************************)
(* Vocabulary of the claims about the readme cache.                        *)
(***************************************************************************)
\* The state is the one a call of fetchReadme has just returned in.
FetchReturned == op = "fetchReadme" /\ fetched.done

Reads(cs) == Cardinality({i \in 1..Len(cs) : cs[i].fn = "NewReader"})

\* The key of the call that has just returned.
FetchedKey == cacheKey(readmeObject[1])

RECURSIVE SumOfLengths(_)
SumOfLengths(m) ==
    IF DOMAIN m = {} THEN 0
    ELSE LET k == CHOOSE k \in DOMAIN m : TRUE
         IN  m[k].markdown.len + SumOfLengths([j \in DOMAIN m \ {k} |-> m[j]])

(***************************************************************************)
(* C11.  A call of fetchReadme for a key that is in rmCache with a stored  *)
(* timestamp not after attrs.Updated returns the stored content, reads     *)
(* nothing from the backend and leaves rmCache, rmCacheSize and rmKeys as  *)
(* they were.  So a second call with the same attrs, right after a call    *)
(* that read the backend and whose key is still cached, reads nothing and  *)
(* returns the same content: one read for the two calls.                   *)
(***************************************************************************)
C11_HitIsPure ==
    [][(op' = "fetchReadme" /\ fetched'.done) =>
        LET attrs == readmeObject'[1]
            key == cacheKey(attrs)
        IN  /\ (key \in DOMAIN rmCache /\ rmCache[key].timestamp <= attrs.Updated) =>
                /\ calls' = <<>>
                /\ ~fetched'.err
                /\ fetched'.markdown = rmCache[key].markdown
                /\ UNCHANGED cache
            /\ (/\ FetchReturned /\ ~fetched.err /\ Reads(calls) = 1
                /\ readmeObject' = readmeObject
                /\ key \in DOMAIN rmCache) =>
                /\ Reads(calls) + Reads(calls') = 1
                /\ ~fetched'.err
                /\ fetched'.markdown = fetched.markdown
                /\ UNCHANGED cache
      ]_vars

\* A hit on one of two cached keys.
C11_Witness ==
    /\ FetchReturned /\ calls = <<>> /\ ~fetched.err
    /\ Len(rmKeys) = 2
    /\ fetched.markdown = rmCache[FetchedKey].markdown
    /\ fetched.markdown.text = "a"

(***************************************************************************)
(* C12.  A call of fetchReadme that stores a key for the first time        *)
(* appends it to rmKeys and then deletes keys from the front of rmKeys,    *)
(* oldest first and one at a time, as long as rmCacheSize is above         *)
(* rmCacheMaxSize and rmKeys is not empty.  Every other call (a hit, an    *)
(* overwrite, a failed read) leaves rmKeys as it was, so hits never move   *)
(* a key behind one that was inserted later.                               *)
(***************************************************************************)
C12_OldestFirst ==
    [][(op' = "fetchReadme" /\ fetched'.done) =>
        LET key == cacheKey(readmeObject'[1])
            stores == ~fetched'.err /\ calls' # <<>>
            first == stores /\ key \notin DOMAIN rmCache
            queue == IF first THEN Append(rmKeys, key) ELSE rmKeys
            held == IF stores THEN DOMAIN rmCache \cup {key} ELSE DOMAIN rmCache
            n == Len(fetched'.evicted)
            lenOf(k) == IF k = key THEN backend'.markdown.len ELSE rmCache[k].markdown.len
            sizeAfter(m) ==
                rmCacheSize + backend'.markdown.len
                    - SumOfLengths([k \in {queue[i] : i \in 1..m} |->
                                      [markdown |-> [len |-> lenOf(k)]]])
        IN  /\ n <= Len(queue)
            /\ fetched'.evicted = SubSeq(queue, 1, n)
            /\ rmKeys' = SubSeq(queue, n + 1, Len(queue))
            /\ DOMAIN rmCache' = held \ {queue[i] : i \in 1..n}
            /\ ~first => n = 0
            /\ first =>
                /\ \A m \in 0..(n - 1) : sizeAfter(m) > rmCacheMaxSize
                /\ rmCacheSize' = sizeAfter(n)
                /\ rmCacheSize' <= rmCacheMaxSize \/ rmKeys' = <<>>
      ]_vars

\* The oldest of three keys is deleted, the two younger ones stay in order.
C12_Witness ==
    /\ FetchReturned
    /\ Len(fetched.evicted) = 1
    /\ Len(rmKeys) = 2
    /\ rmKeys[2] = FetchedKey
    /\ fetched.evicted[1] \notin DOMAIN rmCache

(***************************************************************************)
(* C13.  A call of fetchReadme whose attrs.Updated is later than the       *)
(* timestamp stored for its key reads the backend and, when the read       *)
(* succeeds, returns the content read.                                     *)
(***************************************************************************)
C13_UpdateIsSeen ==
    [][(op' = "fetchReadme" /\ fetched'.done) =>
        LET attrs == readmeObject'[1]
            key == cacheKey(attrs)
        IN  (key \in DOMAIN rmCache /\ attrs.Updated > rmCache[key].timestamp) =>
                /\ Reads(calls') = 1
                /\ ~fetched'.err => fetched'.markdown = backend'.markdown
      ]_vars

(***************************************************************************)
(* C20.  After every call of fetchReadme, rmCacheSize is the sum of the    *)
(* lengths of the contents stored in rmCache, and it is not negative.      *)
(***************************************************************************)
C20_SizeIsSumOfLengths ==
    FetchReturned => (rmCacheSize = SumOfLengths(rmCache) /\ rmCacheSize >= 0)

(***************************************************************************)
(* C19.  Whatever way the fetchReadme calls of requests handled at the     *)
(* same time interleave, rmKeys never holds a key twice, and whenever no   *)
(* call is in progress rmKeys holds exactly the keys of rmCache and        *)
(* rmCacheSize is the sum of the lengths stored in rmCache.                *)
(***************************************************************************)
C19_NoDoubleCounting ==
    /\ \A i \in 1..Len(rmKeys) : \A j \in 1..Len(rmKeys) :
            rmKeys[i] = rmKeys[j] => i = j
    /\ (\A g \in 1..MaxGoroutines : goroutines[g].at = "idle") =>
            /\ {rmKeys[i] : i \in 1..Len(rmKeys)} = DOMAIN rmCache
            /\ rmCacheSize = SumOfLengths(rmCache)

(***************************************************************************)
(* Vocabulary of the claims about linksFromStorage.                        *)
(***************************************************************************)
\* The Prefix of the query of the request that has been answered.
QueryPrefix == queryPrefix(mountPoints[mountPoint], req.path)

IsObject(result) == result.Name # <<>>

IsCommonPrefix(result) == result.Name = <<>> /\ result.Prefix # <<>>

\* The entry a result of the listing stands for.
EntryOf(result) ==
    IF IsObject(result)
    THEN [Name |-> TrimPrefix(result.Name, QueryPrefix),
          Size |-> <<result.Size>>,
          Fingerprint |-> <<Hex(result.MD5)>>,
          ContentType |-> <<result.ContentType>>,
          Timestamp |-> <<result.Updated>>,
          Metadata |-> result.Metadata]
    ELSE [Name |-> TrimPrefix(result.Prefix, QueryPrefix), Size |-> <<>>,
          Fingerprint |-> <<>>, ContentType |-> <<>>, Timestamp |-> <<>>,
          Metadata |-> <<>>]

EntriesOf(results) == [i \in 1..Len(results) |-> EntryOf(results[i])]

\* The name of an object within the directory listed is readme.md, in any case.
IsReadme(result) ==
    IsObject(result) /\ ToLower(TrimPrefix(result.Name, QueryPrefix)) = ReadmeName

NamedIn(its, name) == \E k \in 1..Len(its) : its[k].Name = name

(***************************************************************************)
(* C14.  When Objects() fails after yielding k results, the directory      *)
(* request is still answered 200 with a listing: it is the listing the     *)
(* request gets when the iterator ends normally after the same k results,  *)
(* and it names every mount-derived entry and every entry built from the   *)
(* k results.                                                              *)
(***************************************************************************)
C14_PartialListing ==
    (IndexListed /\ backend.listErr) =>
        LET normal == handleIndex(req, [backend EXCEPT !.listErr = FALSE])
        IN  /\ resp.status = 200
            /\ resp.body.format \in {"html", "json"}
            /\ resp = normal.resp
            /\ items = normal.items
            /\ \A i \in 1..Len(links) : NamedIn(items, links[i].Name)
            /\ \A i \in 1..Len(backend.listing) :
                LET result == backend.listing[i]
                IN  (/\ mountPoint # 0
                     /\ \/ IsObject(result) /\ result.Name # QueryPrefix
                        \/ IsCommonPrefix(result))
                        => NamedIn(items, EntryOf(result).Name)
            /\ \A k \in 2..Len(items) : items[k].Name # items[k - 1].Name

\* The listing fails after two results, under a path that has a mount below.
C14_Witness ==
    /\ IndexListed /\ backend.listErr
    /\ Len(backend.listing) = 2
    /\ Len(storageLinks) = 2
    /\ links # <<>>
    /\ resp.status = 200
    /\ Len(items) = 3

(***************************************************************************)
(* C15.  For one directory path, mount table, listing and flags, the HTML  *)
(* page and the JSON array hold the same entries in the same order.  The   *)
(* specification says so for every path, the root included; the code       *)
(* leaves the entries named favicon.ico out of the HTML page of the root   *)
(* path "/", and only these.                                               *)
(***************************************************************************)
RowsOf(json) == handleIndex([req EXCEPT !.json = json], backend).resp.body.rows

\* C15 as the specification states it.
C15_SameEntriesEverywhere ==
    IndexListed => RowsOf(FALSE) = RowsOf(TRUE)

\* C15 as the code has it.
C15_SameEntriesButFavicon ==
    IndexListed =>
        /\ RowsOf(TRUE) = items
        /\ resp.body.rows = RowsOf(req.json)
        /\ req.path # Root => RowsOf(FALSE) = RowsOf(TRUE)
        /\ req.path = Root =>
            RowsOf(FALSE) = SelectSeq(RowsOf(TRUE), LAMBDA it : it.Name # FaviconName)

\* The HTML page of a directory other than the root lists its favicon.ico.
C15_Witness ==
    /\ IndexListed /\ ~req.json
    /\ req.path # Root
    /\ Len(items) >= 2
    /\ NamedIn(resp.body.rows, FaviconName)
    /\ resp.body.rows = items

(***************************************************************************)
(* C16.  For a directory path that mount point m resolves, with q =        *)
(* m.Prefix + (path without m.Path), the entries linksFromStorage returns  *)
(* are, in the order of the results: an entry with only a name for each    *)
(* common prefix, and an entry with size, fingerprint, content type,       *)
(* timestamp and metadata for each object whose name is not q; each is     *)
(* named by the result's name without q.  The specification says so for    *)
(* every object other than q; the code also leaves out the objects named   *)
(* readme.md (in any case) when -skip-readme is set.  When no mount point  *)
(* resolves the path there are no entries and Objects() is not called.     *)
(***************************************************************************)
Listable(result) ==
    \/ IsObject(result) /\ result.Name # QueryPrefix
    \/ IsCommonPrefix(result)

Skipped(result) ==
    skipReadme /\ IsObject(result) /\ ToLower(result.Name) = ReadmeName

Unresolved ==
    mountPoint = 0 => (storageLinks = <<>> /\ calls = <<>>)

C17_ReadmeCandidate ==
    (IndexListed /\ mountPoint # 0) =>
        LET found == {i \in 1..Len(backend.listing) : IsReadme(backend.listing[i])}
        IN  /\ found = {} => readmeObject = <<>>
            /\ found # {} =>
                readmeObject = <<backend.listing[CHOOSE i \in found : \A j \in found : j <= i]>>
            /\ \A i \in found :
                (backend.listing[i].Name # QueryPrefix) =>
                    ((\E k \in 1..Len(storageLinks) :
                        storageLinks[k] = EntryOf(backend.listing[i])) <=> ~skipReadme)

(***************************************************************************)
(* C18.  With -version-sort, two entries of the same group stand in the    *)
(* listing in the order of strings.Compare of their names, unless a        *)
(* version is found in both names and the text before it is the same in    *)
(* both: then the one with the higher version stands first.                *)
(***************************************************************************)
C18_VersionOrder ==
    (IndexListed /\ versionSort) =>
        \A i \in 1..Len(items) : \A j \in 1..Len(items) :
            (i < j /\ HasSize(items[i]) = HasSize(items[j])) =>
                LET a == items[i].Name
                    b == items[j].Name
                    va == guessVersion(a)
                    vb == guessVersion(b)
                    sameStem == /\ va.ok /\ vb.ok
                                /\ SubSeq(a, 1, va.at) = SubSeq(b, 1, vb.at)
                IN  IF sameStem /\ versionCompare(va, vb) # 0
                    THEN versionCompare(va, vb) > 0
                    ELSE Compare(a, b) <= 0

(***************************************************************************)
(* C21.  After every call of fetchReadme that has returned, the lengths of *)
(* the contents held in rmCache add up to rmCacheMaxSize at most.          *)
(***************************************************************************)
C21_WithinBudget ==
    FetchReturned => SumOfLengths(rmCache) <= rmCacheMaxSize

(***************************************************************************)
(* C22.  With one call of fetchReadme at a time, rmKeys holds the keys of  *)
(* rmCache and no others, each once.  A call that stores a key that was    *)
(* not in rmCache (never stored, or deleted by a purge since) pushes it    *)
(* at the tail, behind the keys that stay; every other call leaves rmKeys  *)
(* as it was.  So rmKeys lists the cached keys in the order in which they  *)
(* were last inserted.                                                     *)
(***************************************************************************)
IsSuffix(s, t) == Len(s) <= Len(t) /\ s = SubSeq(t, Len(t) - Len(s) + 1, Len(t))

C22_QueueIsCachedKeys ==
    [][(op' = "fetchReadme" /\ fetched'.done) =>
        LET key == cacheKey(readmeObject'[1])
            first == ~fetched'.err /\ calls' # <<>> /\ key \notin DOMAIN rmCache
        IN  /\ {rmKeys'[i] : i \in 1..Len(rmKeys')} = DOMAIN rmCache'
            /\ \A i \in 1..Len(rmKeys') : \A j \in 1..Len(rmKeys') :
                rmKeys'[i] = rmKeys'[j] => i = j
            /\ first => IsSuffix(rmKeys', Append(rmKeys, key))
            /\ (first /\ rmKeys' # <<>>) => rmKeys'[Len(rmKeys')] = key
            /\ ~first => rmKeys' = rmKeys
      ]_vars

\* A key of bucket b1 is stored behind a key of b2 that stays, while the key
\* in front of both is deleted.
C22_Witness ==
    /\ FetchReturned /\ ~fetched.err /\ Reads(calls) = 1
    /\ Len(fetched.evicted) = 1
    /\ Len(rmKeys) = 2
    /\ rmKeys[1][1] = "b2"
    /\ rmKeys[2] = FetchedKey
    /\ DOMAIN rmCache = {rmKeys[1], rmKeys[2]}

(***************************************************************************)
(* C23.  A call of fetchReadme that has to read the object (no entry for   *)
(* its key, or an entry stored with a later timestamp) and whose           *)
(* NewReader or ReadFrom fails returns an error and leaves rmCache,        *)
(* rmCacheSize and rmKeys as they were.  A call changes them only after    *)
(* it has opened, read to the end and closed the object.                   *)
(***************************************************************************)
C23_FailedReadLeavesCache ==
    [][(op' = "fetchReadme" /\ fetched'.done) =>
        LET attrs == readmeObject'[1]
            key == cacheKey(attrs)
            miss == key \notin DOMAIN rmCache \/ rmCache[key].timestamp > attrs.Updated
            failed == backend'.readmeRead \in {"openError", "readError"}
        IN  /\ (miss /\ failed) =>
                /\ fetched'.err
                /\ fetched'.markdown = NoMarkdown
                /\ UNCHANGED cache
            /\ fetched'.err => (miss /\ failed)
            /\ ~(UNCHANGED cache) =>
                /\ backend'.readmeRead = "read"
                /\ calls' = <<Call("NewReader", attrs.Bucket, attrs.Name),
                              Call("Close", attrs.Bucket, attrs.Name)>>
      ]_vars

\* ReadFrom fails for a key that is cached with a later timestamp.
C23_Witness ==
    /\ FetchReturned /\ fetched.err
    /\ backend.readmeRead = "readError"
    /\ Len(calls) = 2
    /\ FetchedKey \in DOMAIN rmCache
    /\ rmCache[FetchedKey].timestamp > readmeObject[1].Updated
    /\ Len(rmKeys) = 2

(***************************************************************************)
(* Vocabulary of the claims about the course of a request.                 *)
(***************************************************************************)
\* The state of the request in the state machine of the specification, from
\* the statement handleObject is at.
Stage ==
    CASE pc \in {"findMountPoint", "Attrs"} -> "Resolving"
      [] pc = "conditional" -> "MetadataFetched"
      [] pc = "method" -> "HeadersSent"
      [] pc \in {"NewReader", "Copy"} -> "Streaming"
      [] pc = "notFound" -> "NotFound"
      [] pc = "notModified" -> "NotModified"
      [] pc = "done" -> "Done"
      [] pc = "streamError" -> "StreamError"
      [] OTHER -> "None"

Terminals == {"NotFound", "NotModified", "Done", "StreamError"}

\* The transitions of the specification: a request starts in Resolving,
\* may stay where it is, and leaves a terminal state only by ending.
Transitions ==
    {<<"None", "None">>, <<"None", "Resolving">>,
     <<"Resolving", "Resolving">>, <<"Resolving", "NotFound">>,
     <<"Resolving", "MetadataFetched">>,
     <<"MetadataFetched", "NotModified">>, <<"MetadataFetched", "HeadersSent">>,
     <<"HeadersSent", "Streaming">>,
     <<"Streaming", "Streaming">>, <<"Streaming", "Done">>, <<"Streaming", "StreamError">>}
    \cup {<<t, "None">> : t \in Terminals}

\* The state the request leaves and the state it enters.
Move == <<Stage, Stage'>>

NumCalls(fn) == Cardinality({i \in 1..Len(calls) : calls[i].fn = fn})

\* The request ends from a terminal state only, and no call is repeated.
EndsAndCalls ==
    /\ (pc' = "responded" /\ pc # "responded" /\ op' = "handleObject") => Stage \in Terminals
    /\ op' = "handleObject" =>
        /\ NumCalls("Attrs")' <= 1
        /\ NumCalls("NewReader")' <= 1
        /\ NumCalls("Close")' <= 1

\* The statements of handleObject, taken one by one, end with the response
\* and the calls of handleObject taken as a whole.
ObjectStepsAgree ==
    ObjectServed =>
        LET out == handleObject(req, backend)
        IN  resp = out.resp /\ calls = out.calls /\ mountPoint = out.mountPoint

(***************************************************************************)
(* C24.  A request to handleObject goes through Resolving ->               *)
(* MetadataFetched -> {NotModified | HeadersSent -> Streaming -> {Done |   *)
(* StreamError}}, or from Resolving to NotFound, and ends from one of      *)
(* NotFound, NotModified, Done, StreamError; Attrs and NewReader are       *)
(* called once at most.  The specification gives these transitions only;   *)
(* the code also takes a HEAD request from HeadersSent to Done, with no    *)
(* stream opened.                                                          *)
(***************************************************************************)
\* C24 as the specification states it.
C24_OnlyTheTransitions ==
    [][EndsAndCalls /\ Move \in Transitions]_vars

\* C24 as the code has it.
C24_TransitionsAndHead ==
    [][/\ \/ Move \in Transitions
          \/ /\ Move = <<"HeadersSent", "Done">>
             /\ req.method = "HEAD"
             /\ calls' = calls
       /\ Move = <<"HeadersSent", "Streaming">> => req.method = "GET"
       /\ EndsAndCalls
       /\ ObjectStepsAgree'
      ]_vars

\* A GET went through Streaming and ended in StreamError with status 500.
C24_Witness ==
    /\ ObjectServed /\ req.method = "GET"
    /\ resp.status = 500
    /\ backend.reader = "copyFailedEarly"
    /\ NumCalls("Attrs") = 1 /\ NumCalls("NewReader") = 1

(***************************************************************************)
(* C25.  When a request has been answered, every reader that NewReader     *)
(* returned while it was handled (the object's in handleObject, the        *)
(* readme's in fetchReadme) has been closed, once and after it was opened, *)
(* whatever the outcome of the copy or of the read; no Close is called     *)
(* without a reader.  The next request starts with no reader open.         *)
(***************************************************************************)
\* NewReader has returned a reader to the request.
ReaderOpened ==
    /\ Opened
    /\ op = "handleObject" => backend.reader # "openError"
    /\ op = "handleIndex" => backend.readmeRead # "openError"

C25_EveryReaderClosed ==
    pc \in {"responded", "accept"} =>
        /\ ReaderOpened =>
            \E i \in 1..Len(calls) : \E j \in 1..Len(calls) :
                /\ i < j
                /\ calls[i].fn = "NewReader" /\ calls[j].fn = "Close"
                /\ calls[j].bucket = calls[i].bucket /\ calls[j].name = calls[i].name
        /\ NumCalls("Close") = (IF ReaderOpened THEN 1 ELSE 0)
        /\ NumCalls("NewReader") <= 1

\* The copy of an object failed, and the read of a readme failed: both
\* readers were closed.
C25_Witness ==
    /\ pc = "responded" /\ ReaderOpened /\ NumCalls("Close") = 1
    /\ \/ op = "handleObject" /\ backend.reader = "copyFailedLate"
       \/ op = "handleIndex" /\ backend.readmeRead = "readError"

====
